---- MODULE Spec2Model ----
(***************************************************************************)
(* The form-submission server of src/server.js: POST /submit-form uploads  *)
(* every photo and every video of a request to Cloudinary and then saves   *)
(* one Form document in MongoDB; GET /forms lists the saved documents.     *)
(*                                                                         *)
(* The handlers are async functions run on one event loop.  An action of   *)
(* the model is one run-to-completion step of that loop: the arrival of a  *)
(* request or the completion callback of one Cloudinary or MongoDB call,   *)
(* together with everything the handler does, through the promise          *)
(* reactions it triggers, until it next awaits or responds.                *)
(***************************************************************************)
EXTENDS Integers, Sequences, FiniteSets, TLC

\* Bounds of the model: the file parts a request may carry per field.  The
\* server allows 10 of each (maxCount, lines 66-67); both batches run the
\* same code, the photo batch first.
MaxPhotos == 2
MaxVideos == 1

\* The POST /submit-form requests of a behaviour, processed concurrently,
\* and its GET /forms requests.
Submissions == {1, 2}
Gets == {1}

\* upload.fields([{name: 'photo'}, {name: 'video'}])
Fields == {"photo", "video"}

\* The most file parts of a field a request of the model carries.
MaxCount(field) == IF field = "photo" THEN MaxPhotos ELSE MaxVideos

\* The text fields of the multipart body: every client sends its own.
BodyOf(s) ==
    IF s = 1 THEN [name |-> "Ada", address |-> "1 Infinite Loop"]
             ELSE [name |-> "Bob", address |-> "2 Main Street"]

\* What a failing Cloudinary call passes as error.message.
UploadErrors == {"Invalid image file", "Request Timeout"}
\* What a failing Form.save() rejects with.
SaveErrors == {"buffering timed out"}

\* A wrong tag: 'image' copied into the video batch.
ResourceTypeImage(field) == "image"

\* The second argument of uploadToCloudinary for the files of a field.
ResourceType(field) == IF field = "photo" THEN "image" ELSE "video"

\* result.secure_url of the upload of the i-th file of a field of request s:
\* Cloudinary stores every upload as a new object with its own URL.
SecureUrl(s, field, i) == <<s, field, i>>

\* req.files as multer builds it: one key per field that received at least
\* one file part, holding the files in part order; a field without parts
\* has no key.
MulterFiles(parts) ==
    [f \in {g \in Fields : parts[g] > 0} |-> [i \in 1..parts[f] |-> <<f, i>>]]

\* The requests client s can send: multipart with 0..MaxCount parts per
\* field, or not multipart at all (multer then leaves req.files undefined).
Requests(s) ==
    {[multipart |-> TRUE, files |-> MulterFiles(p), body |-> BodyOf(s)] :
        p \in {[photo |-> a, video |-> b] : a \in 0..MaxPhotos, b \in 0..MaxVideos}}
    \cup {[multipart |-> FALSE, files |-> <<>>, body |-> BodyOf(s)]}

NoRequest == [multipart |-> FALSE, files |-> <<>>, body |-> [name |-> "", address |-> ""]]

\* req.files.photo / req.files.video is truthy
HasField(r, field) == r.multipart /\ field \in DOMAIN r.files

\* req.files[field].length, 0 when the key is absent
NumFiles(r, field) == IF HasField(r, field) THEN Len(r.files[field]) ELSE 0

VARIABLES
    pc,          \* pc[s]: where the handler of submission s is
    req,         \* req[s]: the parsed request (req.files, req.body)
    uploads,     \* uploads[s][f][i]: the promise of uploadToCloudinary for file i of field f
    promiseAll,  \* promiseAll[s][f]: the Promise.all of the batch of field f
    photoUrls,   \* photoUrls[s]: the handler's const photoUrls
    videoUrls,   \* videoUrls[s]: the handler's const videoUrls
    newForm,     \* newForm[s]: the document the handler constructed
    savePromise, \* savePromise[s]: the promise of newForm.save()
    res,         \* res[s]: the responses sent on the request, in order
    cloudCalls,  \* cloudCalls[s]: the upload_stream calls issued, in order
    saveCalls,   \* saveCalls[s]: number of newForm.save() calls issued
    cloudinary,  \* the objects stored in Cloudinary (their URLs)
    db,          \* the Form collection in MongoDB
    getPc,       \* getPc[g]: where the handler of GET request g is
    getRes       \* getRes[g]: the responses sent on GET request g

subVars == <<pc, req, uploads, promiseAll, photoUrls, videoUrls, newForm,
             savePromise, res, cloudCalls, saveCalls>>
getVars == <<getPc, getRes>>
vars == <<pc, req, uploads, promiseAll, photoUrls, videoUrls, newForm,
          savePromise, res, cloudCalls, saveCalls, cloudinary, db, getPc, getRes>>

----------------------------------------------------------------------------
\* Promises

NoPromise == [state |-> "none", reason |-> ""]
Pending == [state |-> "pending", reason |-> ""]
Resolved == [state |-> "resolved", reason |-> ""]
Rejected(reason) == [state |-> "rejected", reason |-> reason]

\* An element of Promise.all's values array that no promise has filled yet.
Hole == <<>>

\* What a promise made to swallow its error resolves with.
Undefined == <<"undefined">>

NoPromiseAll == [state |-> "none", values |-> <<>>, reason |-> ""]

\* Promise.all(promises) over n pending promises.
NewPromiseAll(n) ==
    [state |-> "pending", values |-> [i \in 1..n |-> Hole], reason |-> ""]

\* A wrong gather that is content with the first value (Promise.any).
AnyResolved(values) == \E i \in 1..Len(values) : values[i] # Hole

\* Every element of the values array is filled.
AllResolved(values) == \A i \in 1..Len(values) : values[i] # Hole

\* Promise.all after the values array changed: fulfilled once no element is
\* missing, unless it is settled already.
Fulfil(pa, values) ==
    [pa EXCEPT !.values = values,
               !.state = IF pa.state = "pending" /\ AllResolved(values)
                         THEN "fulfilled" ELSE pa.state]

\* A wrong gather: every resolved value is pushed behind the earlier ones,
\* so the array is in completion order.
ResolveElementPush(pa, index, v) ==
    LET j == CHOOSE k \in 1..Len(pa.values) :
                 pa.values[k] = Hole /\ \A m \in 1..(k - 1) : pa.values[m] # Hole
    IN  Fulfil(pa, [pa.values EXCEPT ![j] = v])

\* Promise.all when the promise at `index` resolves with v: v is stored at
\* `index`, whatever has resolved before.
ResolveElement(pa, index, v) == Fulfil(pa, [pa.values EXCEPT ![index] = v])

\* A wrong uploadToCloudinary whose promise swallows the error and resolves
\* with undefined.
RejectElementSwallow(pa, index, reason) ==
    Fulfil(pa, [pa.values EXCEPT ![index] = Undefined])

\* A wrong uploadToCloudinary whose callback drops the error: the promise
\* never settles for Promise.all.
RejectElementIgnore(pa, index, reason) == pa

\* A wrong gather that waits for every promise to settle and then throws
\* the error of the lowest-index failed one (Promise.allSettled).
RejectElementLowestIndex(pa, index, reason) ==
    LET vals == [pa.values EXCEPT ![index] = <<"rejected", reason>>]
        failed == {k \in 1..Len(vals) : Len(vals[k]) = 2}
        low == CHOOSE k \in failed : \A m \in failed : k <= m
    IN  IF pa.state = "pending" /\ AllResolved(vals)
        THEN [pa EXCEPT !.values = vals, !.state = "rejected", !.reason = vals[low][2]]
        ELSE [pa EXCEPT !.values = vals]

\* Promise.all when the promise at `index` rejects: the first rejection
\* rejects it with that reason, a later one changes nothing.
RejectElement(pa, index, reason) ==
    IF pa.state = "pending"
    THEN [pa EXCEPT !.state = "rejected", !.reason = reason]
    ELSE pa

----------------------------------------------------------------------------
\* The pieces of the POST /submit-form handler

\* uploadToCloudinary(file.buffer, resourceType): the upload_stream call.
uploadToCloudinary(file, resourceType) ==
    [resource_type |-> resourceType, file |-> file]

\* A wrong dispatch that issues every call a second time.
MapUploadsTwice(r, field) ==
    [k \in 1..(2 * NumFiles(r, field)) |->
        uploadToCloudinary(r.files[field][((k - 1) % NumFiles(r, field)) + 1],
                           ResourceType(field))]

\* req.files[field].map(file => uploadToCloudinary(file.buffer, type)):
\* the calls of a batch, issued in index order.
MapUploads(r, field) ==
    [i \in 1..NumFiles(r, field) |->
        uploadToCloudinary(r.files[field][i], ResourceType(field))]

\* The promises of a dispatched batch.
Dispatched(r, field) ==
    [i \in 1..MaxCount(field) |-> IF i <= NumFiles(r, field) THEN Pending ELSE NoPromise]

NoForm == [_id |-> 0, name |-> "", address |-> "", photoUrls |-> <<>>, videoUrls |-> <<>>]

\* A wrong constructor call that passes the two lists in each other's place.
FormSwapped(s, body, pUrls, vUrls) ==
    [_id |-> s, name |-> body.name, address |-> body.address,
     photoUrls |-> vUrls, videoUrls |-> pUrls]

\* new Form({name: req.body.name, address: req.body.address, photoUrls, videoUrls})
Form(s, body, pUrls, vUrls) ==
    [_id |-> s, name |-> body.name, address |-> body.address,
     photoUrls |-> pUrls, videoUrls |-> vUrls]

\* res.status(400).json({message: 'At least one photo or video is required'})
BadRequest == [status |-> 400, message |-> "At least one photo or video is required"]

\* A wrong catch that forgets .status(500).
ServerErrorNoStatus(message) ==
    [status |-> 200, message |-> "Something went wrong", error |-> message]

\* A wrong catch that does not pass err.message on.
ServerErrorNoCause(message) ==
    [status |-> 500, message |-> "Something went wrong", error |-> "Something went wrong"]

\* res.status(500).json({message: 'Something went wrong', error: err.message})
ServerError(message) ==
    [status |-> 500, message |-> "Something went wrong", error |-> message]

\* res.json({message: 'Form submitted successfully!', form: newForm})
Success(form) == [status |-> 200, message |-> "Form submitted successfully!", form |-> form]

\* A wrong precondition that tests req.files alone.
NoAttachmentFilesOnly(r) == ~r.multipart

\* if (!req.files || (!req.files.photo && !req.files.video))
NoAttachment(r) == ~r.multipart \/ (~HasField(r, "photo") /\ ~HasField(r, "video"))

\* A wrong save that replaces the collection by the one document.
SavedReplacing(collection, doc) == {doc}

\* A wrong save that resolves without writing.
SavedNowhere(collection, doc) == collection

\* The collection after newForm.save() resolved.
Saved(collection, doc) == collection \cup {doc}

----------------------------------------------------------------------------
Init ==
    /\ pc = [s \in Submissions |-> "idle"]
    /\ req = [s \in Submissions |-> NoRequest]
    /\ uploads = [s \in Submissions |-> [f \in Fields |-> [i \in 1..MaxCount(f) |-> NoPromise]]]
    /\ promiseAll = [s \in Submissions |-> [f \in Fields |-> NoPromiseAll]]
    /\ photoUrls = [s \in Submissions |-> <<>>]
    /\ videoUrls = [s \in Submissions |-> <<>>]
    /\ newForm = [s \in Submissions |-> NoForm]
    /\ savePromise = [s \in Submissions |-> NoPromise]
    /\ res = [s \in Submissions |-> <<>>]
    /\ cloudCalls = [s \in Submissions |-> <<>>]
    /\ saveCalls = [s \in Submissions |-> 0]
    /\ cloudinary = {}
    /\ db = {}
    /\ getPc = [g \in Gets |-> "idle"]
    /\ getRes = [g \in Gets |-> <<>>]

\* Lines 88-95: both URL lists are known; construct the document and call
\* newForm.save(), then await it.
AfterVideos(s, r, pUrls, vUrls) ==
    /\ videoUrls' = [videoUrls EXCEPT ![s] = vUrls]
    /\ newForm' = [newForm EXCEPT ![s] = Form(s, r.body, pUrls, vUrls)]
    /\ savePromise' = [savePromise EXCEPT ![s] = Pending]
    /\ saveCalls' = [saveCalls EXCEPT ![s] = @ + 1]
    /\ pc' = [pc EXCEPT ![s] = "awaitSave"]

\* Lines 78-85 from the assignment of photoUrls on: dispatch the video batch
\* and await it, or take [] when req.files.video is absent.  up and pa are
\* the promises of the submission as the current step leaves them.
AfterPhotos(s, r, up, pa, pUrls) ==
    /\ photoUrls' = [photoUrls EXCEPT ![s] = pUrls]
    /\ IF HasField(r, "video")
       THEN /\ uploads' = [uploads EXCEPT ![s] =
                              [up EXCEPT !["video"] = Dispatched(r, "video")]]
            /\ promiseAll' = [promiseAll EXCEPT ![s] =
                              [pa EXCEPT !["video"] = NewPromiseAll(NumFiles(r, "video"))]]
            /\ cloudCalls' = [cloudCalls EXCEPT ![s] = @ \o MapUploads(r, "video")]
            /\ pc' = [pc EXCEPT ![s] = "awaitVideos"]
            /\ UNCHANGED <<videoUrls, newForm, savePromise, saveCalls>>
       ELSE /\ uploads' = [uploads EXCEPT ![s] = up]
            /\ promiseAll' = [promiseAll EXCEPT ![s] = pa]
            /\ UNCHANGED cloudCalls
            /\ AfterVideos(s, r, pUrls, <<>>)

\* A POST /submit-form request arrives (lines 65-85): reject it with 400
\* when it has no attachment, else dispatch the first batch and await it.
SubmitForm(s, r) ==
    /\ pc[s] = "idle"
    /\ req' = [req EXCEPT ![s] = r]
    /\ IF NoAttachment(r)
       THEN /\ res' = [res EXCEPT ![s] = Append(@, BadRequest)]
            /\ pc' = [pc EXCEPT ![s] = "done"]
            /\ UNCHANGED <<uploads, promiseAll, photoUrls, videoUrls, newForm,
                           savePromise, cloudCalls, saveCalls>>
       ELSE /\ UNCHANGED res
            /\ IF HasField(r, "photo")
               THEN /\ uploads' = [uploads EXCEPT ![s]["photo"] = Dispatched(r, "photo")]
                    /\ promiseAll' = [promiseAll EXCEPT ![s]["photo"] =
                                         NewPromiseAll(NumFiles(r, "photo"))]
                    /\ cloudCalls' = [cloudCalls EXCEPT ![s] = @ \o MapUploads(r, "photo")]
                    /\ pc' = [pc EXCEPT ![s] = "awaitPhotos"]
                    /\ UNCHANGED <<photoUrls, videoUrls, newForm, savePromise, saveCalls>>
               ELSE AfterPhotos(s, r, uploads[s], promiseAll[s], <<>>)
    /\ UNCHANGED <<cloudinary, db, getVars>>

\* A wrong await whose continuation runs at every settlement of an element.
AwaitedAlways(pa) == TRUE

\* A wrong await whose catch runs again at every later rejection.
AwaitedSettled(pa) == pa.state \in {"pending", "rejected"}

\* The handler is suspended in `await` on this Promise.all: it was created
\* and has not settled yet, so its settlement resumes the handler, once.
Awaited(pa) == pa.state = "pending"

\* The promise of file i of field f settles as `settled`, which leaves the
\* batch's Promise.all as paNew.  A handler awaiting that Promise.all resumes
\* when it fulfils (lines 78-95) and lands in its catch (lines 98-101) when
\* it rejects; a settled Promise.all has no one waiting any more.
Settle(s, f, i, settled, paNew) ==
    LET up == [uploads[s] EXCEPT ![f][i] = settled]
        pa == [promiseAll[s] EXCEPT ![f] = paNew]
        awaited == Awaited(promiseAll[s][f])
    IN  IF awaited /\ paNew.state = "fulfilled"
        THEN /\ UNCHANGED res
             /\ IF f = "photo"
                THEN AfterPhotos(s, req[s], up, pa, paNew.values)
                ELSE /\ uploads' = [uploads EXCEPT ![s] = up]
                     /\ promiseAll' = [promiseAll EXCEPT ![s] = pa]
                     /\ AfterVideos(s, req[s], photoUrls[s], paNew.values)
                     /\ UNCHANGED <<photoUrls, cloudCalls>>
        ELSE /\ uploads' = [uploads EXCEPT ![s] = up]
             /\ promiseAll' = [promiseAll EXCEPT ![s] = pa]
             /\ UNCHANGED <<photoUrls, videoUrls, newForm, savePromise,
                            cloudCalls, saveCalls>>
             /\ IF awaited /\ paNew.state = "rejected"
                THEN /\ res' = [res EXCEPT ![s] = Append(@, ServerError(paNew.reason))]
                     /\ pc' = [pc EXCEPT ![s] = "done"]
                ELSE UNCHANGED <<res, pc>>

\* Cloudinary calls back with a result (lines 55-57): the object is stored
\* and the promise resolves with its secure_url.
UploadSucceed(s, f, i) ==
    /\ uploads[s][f][i].state = "pending"
    /\ cloudinary' = cloudinary \cup {SecureUrl(s, f, i)}
    /\ Settle(s, f, i, Resolved,
              ResolveElement(promiseAll[s][f], i, SecureUrl(s, f, i)))
    /\ UNCHANGED <<req, db, getVars>>

\* Cloudinary calls back with an error (line 56): nothing is stored and the
\* promise rejects with the error.
UploadFail(s, f, i, message) ==
    /\ uploads[s][f][i].state = "pending"
    /\ Settle(s, f, i, Rejected(message),
              RejectElement(promiseAll[s][f], i, message))
    /\ UNCHANGED <<req, cloudinary, db, getVars>>

\* newForm.save() resolves (lines 95-97): the document is in the collection
\* and the handler answers 200 with it.
SaveSucceed(s) ==
    /\ savePromise[s].state = "pending"
    /\ savePromise' = [savePromise EXCEPT ![s] = Resolved]
    /\ db' = Saved(db, newForm[s])
    /\ res' = [res EXCEPT ![s] = Append(@, Success(newForm[s]))]
    /\ pc' = [pc EXCEPT ![s] = "done"]
    /\ UNCHANGED <<req, uploads, promiseAll, photoUrls, videoUrls, newForm,
                   cloudCalls, saveCalls, cloudinary, getVars>>

\* newForm.save() rejects (lines 95, 98-101): nothing is stored and the
\* handler's catch answers 500 with err.message.
SaveFail(s, message) ==
    /\ savePromise[s].state = "pending"
    /\ savePromise' = [savePromise EXCEPT ![s] = Rejected(message)]
    /\ res' = [res EXCEPT ![s] = Append(@, ServerError(message))]
    /\ pc' = [pc EXCEPT ![s] = "done"]
    /\ UNCHANGED <<req, uploads, promiseAll, photoUrls, videoUrls, newForm,
                   cloudCalls, saveCalls, cloudinary, db, getVars>>

----------------------------------------------------------------------------
\* GET /forms

\* A wrong query that filters the collection down to nothing.
FindNone(collection) == {}

\* What Form.find() resolves with: every document of the collection.
Find(collection) == collection

\* res.json(forms)
FormsFound(forms) == [status |-> 200, body |-> forms]

\* res.status(500).json({message: 'Error fetching forms'})
FormsError == [status |-> 500, message |-> "Error fetching forms"]

\* A GET /forms request arrives (lines 105-107): Form.find() is issued.
GetForms(g) ==
    /\ getPc[g] = "idle"
    /\ getPc' = [getPc EXCEPT ![g] = "awaitFind"]
    /\ UNCHANGED <<subVars, cloudinary, db, getRes>>

\* Form.find() resolves (lines 107-108).
FindSucceed(g) ==
    /\ getPc[g] = "awaitFind"
    /\ getRes' = [getRes EXCEPT ![g] = Append(@, FormsFound(Find(db)))]
    /\ getPc' = [getPc EXCEPT ![g] = "done"]
    /\ UNCHANGED <<subVars, cloudinary, db>>

\* Form.find() rejects (lines 109-112).
FindFail(g) ==
    /\ getPc[g] = "awaitFind"
    /\ getRes' = [getRes EXCEPT ![g] = Append(@, FormsError)]
    /\ getPc' = [getPc EXCEPT ![g] = "done"]
    /\ UNCHANGED <<subVars, cloudinary, db>>

----------------------------------------------------------------------------
\* The steps of the POST /submit-form handlers and of their calls.
NextPost ==
    \/ \E s \in Submissions : \E r \in Requests(s) : SubmitForm(s, r)
    \/ \E s \in Submissions, f \in Fields : \E i \in 1..MaxCount(f) : UploadSucceed(s, f, i)
    \/ \E s \in Submissions, f \in Fields, m \in UploadErrors :
          \E i \in 1..MaxCount(f) : UploadFail(s, f, i, m)
    \/ \E s \in Submissions : SaveSucceed(s)
    \/ \E s \in Submissions, m \in SaveErrors : SaveFail(s, m)

Next ==
    \/ NextPost
    \/ \E g \in Gets : GetForms(g)
    \/ \E g \in Gets : FindSucceed(g)
    \/ \E g \in Gets : FindFail(g)

Spec == Init /\ [][Next]_vars

\* Every call in flight completes: each dispatched upload_stream call
\* eventually calls back, with a result or an error, and each save()
\* eventually settles.
CallsComplete ==
    /\ \A s \in Submissions, f \in Fields :
          \A i \in 1..MaxCount(f) :
             WF_vars(UploadSucceed(s, f, i) \/ \E m \in UploadErrors : UploadFail(s, f, i, m))
    /\ \A s \in Submissions :
          WF_vars(SaveSucceed(s) \/ \E m \in SaveErrors : SaveFail(s, m))

\* The submissions alone, every call of which completes.  The steps of
\* GET /forms are left out: they read db and write getPc and getRes only.
FairSpec == Init /\ [][NextPost]_vars /\ CallsComplete

----------------------------------------------------------------------------
\* Vocabulary of the properties

\* The attachments of submission s: <<field, index>> of every file part.
Attachments(s) ==
    UNION {{<<f, i>> : i \in 1..NumFiles(req[s], f)} : f \in Fields}

\* Every attachment of s (there is at least one) was uploaded successfully.
AllUploaded(s) ==
    /\ Attachments(s) # {}
    /\ \A a \in Attachments(s) : uploads[s][a[1]][a[2]].state = "resolved"

\* An upload of s failed.
SomeUploadFailed(s) ==
    \E a \in Attachments(s) : uploads[s][a[1]][a[2]].state = "rejected"

\* The URL list the handler of s holds for a field.
UrlsOf(s, f) == IF f = "photo" THEN photoUrls[s] ELSE videoUrls[s]

\* The URLs the uploads of the attachments of s return, in input order.
ExpectedUrls(s, f) == [i \in 1..NumFiles(req[s], f) |-> <<s, f, i>>]

\* The records of submission s in the Record Store.
RecordsOf(s) == {d \in db : d._id = s}
HasRecord(s) == RecordsOf(s) # {}

\* The URLs a record references.
UrlsIn(d) ==
    {d.photoUrls[i] : i \in 1..Len(d.photoUrls)} \cup
    {d.videoUrls[i] : i \in 1..Len(d.videoUrls)}

\* The kind tag an Object Store call for a field must carry.
KindTag(f) == IF f = "photo" THEN "image" ELSE "video"

OtherField(f) == IF f = "photo" THEN "video" ELSE "photo"

----------------------------------------------------------------------------
\* C1. Order preservation: whenever the uploads of a batch of N attachments
\* have all succeeded, in whatever order they completed, the URL list of
\* that kind has length N and its i-th element is the URL returned for the
\* i-th attachment; for N = 0 the list is empty.
C1_OrderPreserved ==
    \A s \in Submissions, f \in Fields :
        /\ promiseAll[s][f].state = "fulfilled" => UrlsOf(s, f) = ExpectedUrls(s, f)
        /\ NumFiles(req[s], f) = 0 => UrlsOf(s, f) = <<>>

\* A batch of at least two photos has been gathered.
C1_Witness ==
    \E s \in Submissions :
        /\ NumFiles(req[s], "photo") >= 2
        /\ promiseAll[s]["photo"].state = "fulfilled"
        /\ Len(photoUrls[s]) = NumFiles(req[s], "photo")

\* C2 as stated: of a submission that has been answered, a record exists if
\* and only if every attachment was uploaded successfully.
C2_RecordIffAllUploaded ==
    \A s \in Submissions :
        Len(res[s]) > 0 => (HasRecord(s) <=> AllUploaded(s))

\* C2 as amended: in every reachable state a record of a submission exists
\* if and only if every attachment was uploaded successfully and the save
\* of its record has succeeded; in particular never while an upload of the
\* submission has failed or is outstanding.
C2_RecordIffUploadedAndSaved ==
    \A s \in Submissions :
        /\ HasRecord(s) <=> (AllUploaded(s) /\ savePromise[s].state = "resolved")
        /\ HasRecord(s) => ~SomeUploadFailed(s)

\* All uploads of a submission succeeded, its save failed, no record exists.
C2_Witness ==
    \E s, t \in Submissions :
        /\ AllUploaded(s) /\ savePromise[s].state = "rejected" /\ ~HasRecord(s)
        /\ AllUploaded(t) /\ savePromise[t].state = "resolved" /\ HasRecord(t)

\* C3. If any upload of a submission fails, save is never invoked for it.
C3_NoSaveAfterFailedUpload ==
    \A s \in Submissions :
        SomeUploadFailed(s) => saveCalls[s] = 0 /\ savePromise[s].state = "none"

\* A video upload failed after every photo upload had succeeded.
C3_Witness ==
    \E s \in Submissions :
        /\ promiseAll[s]["photo"].state = "fulfilled"
        /\ promiseAll[s]["video"].state = "rejected"
        /\ SomeUploadFailed(s)
        /\ pc[s] = "done"

\* C4. A submission without any photo or video is answered 400 'At least
\* one photo or video is required', and no upload call and no save call is
\* issued for it.
C4_EmptySubmissionRejected ==
    \A s \in Submissions :
        (pc[s] # "idle" /\ Attachments(s) = {}) =>
            /\ res[s] = <<[status |-> 400,
                           message |-> "At least one photo or video is required"]>>
            /\ cloudCalls[s] = <<>>
            /\ saveCalls[s] = 0
            /\ \A f \in Fields : \A i \in 1..MaxCount(f) : uploads[s][f][i].state = "none"

\* A multipart submission with no file part has been answered.
C4_Witness ==
    \E s \in Submissions :
        /\ pc[s] = "done" /\ req[s].multipart /\ Attachments(s) = {}
        /\ Len(res[s]) = 1

\* C5. All-or-nothing: once an upload of a submission has failed, its
\* outcome is a 500 response that holds no URL, no record holds a URL of the
\* submission, and a response that does hold URL lists holds one URL per
\* submitted attachment.
C5_AllOrNothing ==
    \A s \in Submissions :
        /\ SomeUploadFailed(s) =>
              /\ Len(res[s]) = 1
              /\ res[s][1].status = 500
              /\ DOMAIN res[s][1] = {"status", "message", "error"}
              /\ res[s][1].error \in UploadErrors
              /\ ~HasRecord(s)
              /\ \A d \in db : \A a \in Attachments(s) : <<s, a[1], a[2]>> \notin UrlsIn(d)
        /\ \A k \in 1..Len(res[s]) :
              "form" \in DOMAIN res[s][k] =>
                  /\ Len(res[s][k].form.photoUrls) = NumFiles(req[s], "photo")
                  /\ Len(res[s][k].form.videoUrls) = NumFiles(req[s], "video")

\* One upload of a submission failed while a sibling upload succeeded and
\* left its object in the Object Store.
C5_Witness ==
    \E s \in Submissions :
        /\ SomeUploadFailed(s)
        /\ \E a \in Attachments(s) :
              /\ uploads[s][a[1]][a[2]].state = "resolved"
              /\ <<s, a[1], a[2]>> \in cloudinary
        /\ Len(res[s]) = 1

\* C6. When every upload of a submission and its save succeed, the response
\* is 200 and carries the persisted record, whose name and address are the
\* submitted ones and whose photoUrls and videoUrls hold, one per
\* attachment, exactly the URLs returned for the submission's attachments.
C6_SuccessRecord ==
    \A s \in Submissions :
        (AllUploaded(s) /\ savePromise[s].state = "resolved") =>
            LET d == [_id |-> s,
                      name |-> BodyOf(s).name,
                      address |-> BodyOf(s).address,
                      photoUrls |-> ExpectedUrls(s, "photo"),
                      videoUrls |-> ExpectedUrls(s, "video")]
            IN  /\ res[s] = <<[status |-> 200,
                               message |-> "Form submitted successfully!",
                               form |-> d]>>
                /\ RecordsOf(s) = {d}
                /\ Len(d.photoUrls) = NumFiles(req[s], "photo")
                /\ Len(d.videoUrls) = NumFiles(req[s], "video")

\* A submission with two photos and a video has been persisted (scenario A).
C6_Witness ==
    \E s \in Submissions :
        /\ NumFiles(req[s], "photo") = 2 /\ NumFiles(req[s], "video") = 1
        /\ savePromise[s].state = "resolved"
        /\ HasRecord(s)

\* C7. When all uploads of a submission succeed but its save fails, the
\* response is 500 with the save's error, no record of the submission
\* exists, and every object uploaded for it is in the Object Store and
\* referenced by no record.
C7_SaveFailureLeavesOrphans ==
    \A s \in Submissions :
        savePromise[s].state = "rejected" =>
            /\ AllUploaded(s)
            /\ res[s] = <<[status |-> 500, message |-> "Something went wrong",
                           error |-> savePromise[s].reason]>>
            /\ ~HasRecord(s)
            /\ \A a \in Attachments(s) :
                  /\ <<s, a[1], a[2]>> \in cloudinary
                  /\ \A d \in db : <<s, a[1], a[2]>> \notin UrlsIn(d)

\* The save of a submission failed while the other submission is persisted.
C7_Witness ==
    \E s, t \in Submissions :
        /\ savePromise[s].state = "rejected"
        /\ pc[s] = "done"
        /\ HasRecord(t)

\* C8 as stated: the failure response carries the failing kind, so that the
\* responses to a failed photo batch and to a failed video batch differ.
C8_FailureNamesKind ==
    \A s, t \in Submissions :
        (/\ promiseAll[s]["photo"].state = "rejected"
         /\ promiseAll[t]["video"].state = "rejected") => res[s] # res[t]

\* C8 as amended: when an upload batch of a submission fails, the response
\* is 500 {message: 'Something went wrong', error: cause}, where cause is
\* the error message of a failed upload of that batch; it has no other
\* field, so it does not tell the failing kind.
C8_FailureCarriesCause ==
    \A s \in Submissions, f \in Fields :
        promiseAll[s][f].state = "rejected" =>
            /\ Len(res[s]) = 1
            /\ DOMAIN res[s][1] = {"status", "message", "error"}
            /\ res[s][1].status = 500
            /\ res[s][1].message = "Something went wrong"
            /\ res[s][1].error \in
                  {uploads[s][f][i].reason :
                      i \in {j \in 1..MaxCount(f) : uploads[s][f][j].state = "rejected"}}

\* A photo batch and a video batch have failed with different causes.
C8_Witness ==
    \E s, t \in Submissions :
        /\ promiseAll[s]["photo"].state = "rejected"
        /\ promiseAll[t]["video"].state = "rejected"
        /\ Len(res[s]) = 1 /\ Len(res[t]) = 1
        /\ res[s][1].error # res[t][1].error

\* C9. Empty-kind short-circuit: when a submission has no attachment of one
\* kind and at least one of the other, the URL list of the empty kind is
\* empty, in the handler and in the record, and no Object Store call with
\* that kind's tag is ever issued for the submission.
C9_EmptyKindShortCircuit ==
    \A s \in Submissions, f \in Fields :
        (/\ pc[s] # "idle"
         /\ NumFiles(req[s], f) = 0
         /\ NumFiles(req[s], OtherField(f)) > 0) =>
            /\ UrlsOf(s, f) = <<>>
            /\ promiseAll[s][f].state = "none"
            /\ \A k \in 1..Len(cloudCalls[s]) :
                  cloudCalls[s][k].resource_type # KindTag(f)
            /\ \A d \in RecordsOf(s) :
                  IF f = "photo" THEN d.photoUrls = <<>> ELSE d.videoUrls = <<>>

\* A submission with videos and no photo has been persisted.
C9_Witness ==
    \E s \in Submissions :
        /\ NumFiles(req[s], "photo") = 0
        /\ NumFiles(req[s], "video") > 0
        /\ Len(cloudCalls[s]) > 0
        /\ HasRecord(s)

\* C10. Whenever GET /forms answers, it answers either 200 with exactly the
\* records persisted at that moment, each a record of a submission whose
\* uploads have all succeeded, or 500 'Error fetching forms'.
C10_GetFormsListsPersisted ==
    [][\A g \in Gets :
          getRes'[g] # getRes[g] =>
              \/ /\ getRes'[g] = <<[status |-> 200, body |-> db]>>
                 /\ \A d \in db : AllUploaded(d._id)
              \/ getRes'[g] = <<[status |-> 500, message |-> "Error fetching forms"]>>
      ]_vars

\* GET /forms has listed a record while another submission is in progress.
C10_Witness ==
    \E g \in Gets, s \in Submissions :
        /\ Len(getRes[g]) = 1
        /\ getRes[g][1].status = 200
        /\ getRes[g][1].body # {}
        /\ pc[s] \in {"awaitPhotos", "awaitVideos", "awaitSave"}

\* C11. No cancellation, no rollback: once an upload of a submission has
\* failed, the submission has been answered, and whatever a sibling upload
\* does afterwards changes neither that response nor the Record Store; a
\* sibling still in flight stays in flight until it completes or fails on
\* its own, both of which remain possible; every object stored for the
\* submission, before or after the failure, stays stored and no record
\* references it.
C11_NoCancellationNoRollback ==
    [][\A s \in Submissions :
          SomeUploadFailed(s) =>
              /\ Len(res[s]) = 1
              /\ res'[s] = res[s]
              /\ {d \in db' : d._id = s} = {}
              /\ \A f \in Fields : \A i \in 1..NumFiles(req[s], f) :
                    LET url == <<s, f, i>>
                        before == uploads[s][f][i].state
                        after == uploads'[s][f][i].state
                    IN  /\ before = "pending" =>
                              /\ after \in {"pending", "resolved", "rejected"}
                              /\ ENABLED UploadSucceed(s, f, i)
                              /\ ENABLED (\E m \in UploadErrors : UploadFail(s, f, i, m))
                        /\ before = "resolved" => url \in cloudinary
                        /\ url \in cloudinary => url \in cloudinary'
                        /\ after = "resolved" =>
                              /\ url \in cloudinary'
                              /\ \A d \in db' : url \notin UrlsIn(d)
      ]_vars

\* Both photos of a batch have failed, the second one after the response.
C11_Witness ==
    \E s \in Submissions :
        /\ uploads[s]["photo"][1].state = "rejected"
        /\ uploads[s]["photo"][2].state = "rejected"
        /\ pc[s] = "done"

\* The calls a submission has issued for file i of field f.
CallsOf(s, f, i) ==
    {k \in 1..Len(cloudCalls[s]) : cloudCalls[s][k].file = <<f, i>>}

\* Every dispatched attachment has exactly one Object Store call, tagged
\* 'image' for a photo and 'video' for a video, whatever its outcome; an
\* attachment not dispatched has none; a batch is dispatched whole or not
\* at all.
OneCallPerAttachment ==
    \A s \in Submissions, f \in Fields :
        /\ \/ \A i \in 1..NumFiles(req[s], f) : uploads[s][f][i].state = "none"
           \/ \A i \in 1..NumFiles(req[s], f) : uploads[s][f][i].state # "none"
        /\ \A i \in 1..MaxCount(f) :
              /\ i > NumFiles(req[s], f) => uploads[s][f][i].state = "none"
              /\ Cardinality(CallsOf(s, f, i)) =
                    IF uploads[s][f][i].state = "none" THEN 0 ELSE 1
              /\ \A k \in CallsOf(s, f, i) : cloudCalls[s][k].resource_type = KindTag(f)
        /\ Len(cloudCalls[s]) =
              Cardinality({a \in Attachments(s) : uploads[s][a[1]][a[2]].state # "none"})

\* C12. Unbounded single dispatch: when a batch of N attachments of one
\* kind starts, exactly one Object Store call per attachment is issued with
\* the tag of its kind, and the step that starts the batch leaves all N
\* calls in flight (none completed yet); no attachment is ever dispatched a
\* second time, whatever the outcome.
C12_SingleDispatch ==
    /\ []OneCallPerAttachment
    /\ [][\A s \in Submissions, f \in Fields :
             LET n == NumFiles(req'[s], f)
             IN  (n > 0 /\ uploads[s][f][1].state = "none"
                        /\ uploads'[s][f][1].state # "none") =>
                    /\ \A i \in 1..n : uploads'[s][f][i].state = "pending"
                    /\ Len(cloudCalls'[s]) = Len(cloudCalls[s]) + n
                    /\ \A i \in 1..n : uploads[s][f][i].state = "none"]_vars

\* A batch of two photos is in flight, both calls issued, none completed.
C12_Witness ==
    \E s \in Submissions :
        /\ NumFiles(req[s], "photo") = 2
        /\ uploads[s]["photo"][1].state = "pending"
        /\ uploads[s]["photo"][2].state = "pending"
        /\ Len(cloudCalls[s]) = 2

\* An Object Store call of s has not completed.
SomeUploadPending(s) ==
    \E a \in Attachments(s) : uploads[s][a[1]][a[2]].state = "pending"

\* C13 as stated: as long as an Object Store call of a submission has not
\* completed, the submission has no response, neither 200 nor 500, and no
\* record; so a call that never completes stalls it for ever.
C13_PendingCallStallsSubmission ==
    \A s \in Submissions :
        SomeUploadPending(s) => (res[s] = <<>> /\ ~HasRecord(s))

\* C13 as amended: as long as an Object Store call of a submission has not
\* completed, the submission has no 200 response, no save call and no
\* record, and it has no response at all unless a sibling upload has
\* failed, in which case it has been answered 500; so a call that never
\* completes stalls the submission for ever unless a sibling upload fails.
C13_PendingCallBlocksSuccess ==
    \A s \in Submissions :
        SomeUploadPending(s) =>
            /\ ~HasRecord(s)
            /\ saveCalls[s] = 0
            /\ \A k \in 1..Len(res[s]) : res[s][k].status = 500
            /\ res[s] # <<>> <=> SomeUploadFailed(s)

\* A submission has been answered 500 while one of its calls is in flight.
C13_Witness ==
    \E s \in Submissions :
        /\ SomeUploadPending(s)
        /\ Len(res[s]) = 1
        /\ res[s][1].status = 500

\* Every record holds only URLs returned for its own submission's
\* attachments, and its own submission's name and address.
C14_OwnUrlsOnly ==
    \A d \in db :
        /\ d._id \in Submissions
        /\ UrlsIn(d) \subseteq {<<d._id, a[1], a[2]>> : a \in Attachments(d._id)}
        /\ d.name = BodyOf(d._id).name
        /\ d.address = BodyOf(d._id).address

\* C14. Isolation: every record holds only URLs of its own submission, and
\* a step of one submission (its arrival, the success or failure of one of
\* its uploads or of its save) changes neither the response nor the record
\* nor the progress of another.
C14_Isolation ==
    [][/\ C14_OwnUrlsOnly'
       /\ \A s \in Submissions :
             (uploads'[s] # uploads[s] \/ savePromise'[s] # savePromise[s]
                 \/ req'[s] # req[s]) =>
                 \A t \in Submissions \ {s} :
                     /\ res'[t] = res[t]
                     /\ {d \in db' : d._id = t} = {d \in db : d._id = t}
                     /\ pc'[t] = pc[t]
                     /\ newForm'[t] = newForm[t]
                     /\ uploads'[t] = uploads[t]
      ]_vars

\* One submission is persisted while an upload of the other has failed.
C14_Witness ==
    \E s, t \in Submissions :
        /\ HasRecord(s)
        /\ Len(res[s]) = 1 /\ res[s][1].status = 200
        /\ SomeUploadFailed(t)
        /\ Len(res[t]) = 1 /\ res[t][1].status = 500

\* C15. Photo then video: a submission has issued a 'video' call only if
\* every photo upload of it has completed successfully; if a photo upload
\* has failed, no video upload is dispatched.
C15_PhotoThenVideo ==
    \A s \in Submissions :
        LET videoCalls == {k \in 1..Len(cloudCalls[s]) :
                              cloudCalls[s][k].resource_type = "video"}
            photoFailed == \E i \in 1..NumFiles(req[s], "photo") :
                              uploads[s]["photo"][i].state = "rejected"
        IN  /\ videoCalls # {} =>
                  \A i \in 1..NumFiles(req[s], "photo") :
                      uploads[s]["photo"][i].state = "resolved"
            /\ photoFailed =>
                  /\ videoCalls = {}
                  /\ \A i \in 1..MaxCount("video") : uploads[s]["video"][i].state = "none"

\* A submission with a video whose photo upload failed: no video call.
C15_Witness ==
    \E s \in Submissions :
        /\ NumFiles(req[s], "video") > 0
        /\ \E i \in 1..NumFiles(req[s], "photo") : uploads[s]["photo"][i].state = "rejected"
        /\ pc[s] = "done"
        /\ Len(cloudCalls[s]) = NumFiles(req[s], "photo")

\* C16. At most one response per request, and it is a 200, a 400 or a 500;
\* the handler is done exactly when it has sent it.
C16_OneResponse ==
    \A s \in Submissions :
        /\ Len(res[s]) <= 1
        /\ \A k \in 1..Len(res[s]) : res[s][k].status \in {200, 400, 500}
        /\ pc[s] = "done" <=> Len(res[s]) = 1

\* Two uploads of one batch have failed one after the other and the other
\* submission has been answered 200: one response each.
C16_Witness ==
    \E s, t \in Submissions :
        /\ \A i \in 1..2 : uploads[s]["photo"][i].state = "rejected"
        /\ Len(res[s]) = 1
        /\ Len(res[t]) = 1 /\ res[t][1].status = 200

\* C17. Eventual response: when every dispatched Object Store call and
\* every save eventually completes, every submission received is
\* eventually answered.
C17_EventualResponse ==
    \A s \in Submissions : (pc[s] # "idle") ~> (Len(res[s]) = 1)

\* A submission with photos and a video has been answered after its save.
C17_Witness ==
    \E s \in Submissions :
        /\ NumFiles(req[s], "photo") > 0 /\ NumFiles(req[s], "video") > 0
        /\ savePromise[s].state \in {"resolved", "rejected"}
        /\ Len(res[s]) = 1

\* C18. First failure wins: the step in which an upload of a submission
\* fails answers 500 with that upload's error when no upload of the
\* submission has failed before, and leaves the response as it is when one
\* has; so the cause reported is that of the failure that completed first.
C18_FirstFailureWins ==
    [][\A s \in Submissions, f \in Fields :
          \A i \in 1..MaxCount(f) :
              (uploads[s][f][i].state = "pending" /\ uploads'[s][f][i].state = "rejected") =>
                  IF SomeUploadFailed(s)
                  THEN res'[s] = res[s]
                  ELSE res'[s] = <<[status |-> 500,
                                    message |-> "Something went wrong",
                                    error |-> uploads'[s][f][i].reason]>>
      ]_vars

\* Both photos failed with different errors and the response reports the
\* error of the second photo, which failed first.
C18_Witness ==
    \E s \in Submissions :
        /\ uploads[s]["photo"][1].state = "rejected"
        /\ uploads[s]["photo"][2].state = "rejected"
        /\ uploads[s]["photo"][1].reason # uploads[s]["photo"][2].reason
        /\ Len(res[s]) = 1
        /\ res[s][1].error = uploads[s]["photo"][2].reason

====
